---- MODULE Spec2Model ----
(***************************************************************************)
(* Model of arqual.py: the filter-expression builder (add_parameter,       *)
(* build_url), the three commands (get_stations, get_indexes, get_alerts)  *)
(* and their rendering loops.                                              *)
(*                                                                         *)
(* Text is modelled as a sequence of string tokens: a printed line or a    *)
(* filter expression is the concatenation of its tokens.  Attribute        *)
(* values, option values and the literal pieces of the format strings are  *)
(* each one token.                                                         *)
(***************************************************************************)
EXTENDS Integers, Sequences, FiniteSets, TLC

\* Longest feature list in a response of the grouping inputs.
MaxFeatures == 4
\* Longest feature list in a response of the formatting inputs.
MaxFormat == 2

VARIABLES
    cmd,              \* argv[0]
    opts,             \* the options main parsed: date, date_min, date_max, station, pollutant
    args,             \* the parameters of the running get_* call
    stack,            \* the suspended get_indexes frames (the two-call recursion)
    responses,        \* what the transport will answer, in order
    calls,            \* the requests issued so far (the urls given to requests.get)
    where,            \* local `where` of the running call
    response,         \* local `http_response` / `response` of the running call
    i,                \* position of the rendering loop in response["features"]
    previous_date,    \* local of get_indexes
    previous_station, \* local of get_indexes and get_alerts
    out,              \* everything printed so far, one entry per print()
    pc,               \* where the program is
    status            \* "running", "ok" (normal end), "exit(1)", "KeyError"

vars == <<cmd, opts, args, stack, responses, calls, where, response, i,
          previous_date, previous_station, out, pc, status>>

-----------------------------------------------------------------------------
(* Values *)

\* Python's None, a value different from every string of the model.
None == "<None>"

\* A value of the payload or a local that may hold either a string or an
\* integer, with Python's != between them: values of different types differ.
PyStr(s) == [type |-> "str", value |-> s]
PyInt(n) == [type |-> "int", value |-> n]
py_ne(a, b) == a.type /= b.type \/ a.value /= b.value

\* Truthiness of an option value: `if value`, `not date`.
Truthy(value) == value /= "" /\ value /= None

PRINT_RED_ON_BLACK == "\\033[1;31;48m"
PRINT_COLOR_RESET == "\\033[0;0m"
URL_ALERTAS == "URL_ALERTAS"
URL_POLUENTES == "URL_POLUENTES"
URL_GLOBAL == "URL_GLOBAL"

\* datetime.today().strftime("%Y-%m-%d") and the day before it.
today == "2020-04-17"
yesterday == "2020-04-16"

\* Milliseconds in a day (format_short_date divides by 1000 and formats the UTC day).
MsPerDay == 86400000

\* Epoch-millisecond dates of the feature payloads: two instants of the
\* first day and one of the second.  A date is an integer: format_short_date
\* accepts nothing else from a JSON payload.
Dates == {0, 43200000, MsPerDay}

\* Station ids of the feature payloads.  An id is only compared and printed
\* with %s, so any string is one, the empty string included.
StationIds == {"", "3072", "3073"}

HourDisplays == {"N.h", "", "10h"}
AlertFlags == {0, 1, 2}

Commands == {"stations", "indexes", "alerts"}

-----------------------------------------------------------------------------
(* Pure functions *)

\* Mutant for C1: add_parameter with the separator added before every clause,
\* the first one included.
add_parameter_always_and(statement, name, value, comparison_operator) ==
    IF Truthy(value)
    THEN statement \o <<" and ">> \o <<name, comparison_operator, "'", value, "'">>
    ELSE statement

\* add_parameter(statement, name, value, comparison_operator, logical_operator='and')
add_parameter(statement, name, value, comparison_operator) ==
    IF Truthy(value)
    THEN (IF statement /= <<>> THEN statement \o <<" and ">> ELSE statement)
         \o <<name, comparison_operator, "'", value, "'">>
    ELSE statement

\* urllib.parse.quote on one token: the tokens with reserved characters are
\* percent-encoded, letters, digits and "-" pass unchanged.
quote_token(t) ==
    CASE t = " and " -> "%20and%20"
      [] t = "="     -> "%3D"
      [] t = ">="    -> "%3E%3D"
      [] t = "<="    -> "%3C%3D"
      [] t = "'"     -> "%27"
      [] OTHER       -> t

quote(s) == [k \in 1..Len(s) |-> quote_token(s[k])]

\* build_url(base_url, where, out_fields="*", order_by="", return_geometry="false")
build_url(base_url, where_, out_fields, order_by) ==
    [base_url |-> base_url, outFields |-> out_fields, orderByFields |-> order_by,
     returnGeometry |-> "false", where |-> quote(where_)]

\* The five add_parameter calls of get_indexes and get_alerts.
build_where(a) ==
    LET w1 == add_parameter(<<>>, "data", a.date, "=")
        w2 == add_parameter(w1, "data", a.date_min, ">=")
        w3 == add_parameter(w2, "data", a.date_max, "<=")
        w4 == add_parameter(w3, "estacao_id", a.station, "=")
    IN  add_parameter(w4, "poluente_abv", a.pollutant, "=")

\* format_short_date on an epoch-millisecond integer: the UTC day.
format_short_date(date) ==
    CASE date \div MsPerDay = 0 -> "1970-01-01"
      [] date \div MsPerDay = 1 -> "1970-01-02"
      [] OTHER                  -> "1970-01-03"

ALERTA == <<PRINT_RED_ON_BLACK, " ALERTA!", PRINT_COLOR_RESET>>

\* Mutant for C8: format_index_values with the marker on any non-zero flag.
format_index_values_truthy_alert(attributes) ==
    <<attributes.poluente_abv, " - ", attributes.avg_display, " (",
      attributes.poluente_agr, ") - ", attributes.indice_nome>>
    \o (IF attributes.hora_display /= "N.h"
        THEN <<" (", attributes.hora_display, ")">> ELSE <<>>)
    \o (IF attributes.alerta /= 0 THEN ALERTA ELSE <<>>)

format_index_values(attributes) ==
    <<attributes.poluente_abv, " - ", attributes.avg_display, " (",
      attributes.poluente_agr, ") - ", attributes.indice_nome>>
    \o (IF attributes.hora_display /= "N.h"
        THEN <<" (", attributes.hora_display, ")">> ELSE <<>>)
    \o (IF attributes.alerta = 1 THEN ALERTA ELSE <<>>)

format_station(station) ==
    <<station.concelho_nome, ", ", station.estacao_nome, " (", station.estacao_id, ")">>

\* Mutant for C9: format_alert with the suffix dropped for an empty
\* hora_display too.
format_alert_skip_empty_hour(attributes) ==
    <<format_short_date(attributes.data), " - ", attributes.poluente_abv, " - ",
      attributes.avg_display, " - ", attributes.indice_nome>>
    \o (IF attributes.hora_display /= "N.h" /\ attributes.hora_display /= ""
        THEN <<" (", attributes.hora_display, ")">> ELSE <<>>)

format_alert(attributes) ==
    <<format_short_date(attributes.data), " - ", attributes.poluente_abv, " - ",
      attributes.avg_display, " - ", attributes.indice_nome>>
    \o (IF attributes.hora_display /= "N.h"
        THEN <<" (", attributes.hora_display, ")">> ELSE <<>>)

\* title of get_indexes: "\n%s - %s" % (estacao_nome, formatted_date)
indexes_title(attr) ==
    <<"\n", attr.estacao_nome, " - ", format_short_date(attr.data)>>

\* title of get_alerts: "\n%s (%s) - %s" % (estacao_nome, estacao_id, short date)
alerts_title(attr) ==
    <<"\n", attr.estacao_nome, " (", attr.estacao_id, ") - ", format_short_date(attr.data)>>

RECURSIVE join_lines(_)
\* "\n".join(lines)
join_lines(lines) ==
    IF lines = <<>> THEN <<>>
    ELSE IF Len(lines) = 1 THEN lines[1]
    ELSE lines[1] \o <<"\n">> \o join_lines(Tail(lines))

\* One print() call: what kind of text it is, the text, and the number of
\* requests issued before it (which call of the invocation printed it).  A
\* rule is "-" * len(title); its text holds the title whose length it has.
Printed(kind, text) == [kind |-> kind, text |-> text, call |-> Len(calls)]

NO_DATA == Printed("message", <<"No data found.">>)
USAGE_ALERTS == Printed("message", <<"Please specify one of following: station, date or pollutant">>)

-----------------------------------------------------------------------------
(* Inputs *)

Feature(data, estacao_id, hora_display, alerta) ==
    [data |-> data, estacao_id |-> estacao_id, estacao_nome |-> "Olivais",
     concelho_nome |-> "Lisboa", poluente_abv |-> "PM10", poluente_agr |-> "24h",
     avg_display |-> "17", indice_nome |-> "Bom",
     hora_display |-> hora_display, alerta |-> alerta]

Lists(S, n) == UNION {[1..k -> S] : k \in 0..n}

Response(status_code, error, has_features, features) ==
    [status_code |-> status_code, error |-> error,
     has_features |-> has_features, features |-> features]

OptionSets ==
    [date : {"", "2020-04-10"}, date_min : {"", "2020-04-01"},
     date_max : {"", "2020-04-20"}, station : {"", "3072"}, pollutant : {"", "PM10"}]

NoOptions == [date |-> "", date_min |-> "", date_max |-> "", station |-> "", pollutant |-> ""]

\* The options each command's getopt call accepts.
OptionsOf(c) ==
    IF c = "stations" THEN {o \in OptionSets : o = [NoOptions EXCEPT !.date = o.date]}
    ELSE OptionSets

\* Every status and body shape, with at most one feature.
SmallResponses ==
    {Response(s, e, h, f) : s \in {200, 500}, e \in BOOLEAN, h \in {TRUE},
                            f \in Lists({Feature(0, "3072", "10h", 1)}, 1)}
    \cup {Response(s, e, FALSE, <<>>) : s \in {200, 500}, e \in BOOLEAN}

GroupFeatures == {Feature(d, s, "N.h", 0) : d \in Dates, s \in StationIds}
FormatFeatures == {Feature(0, "3072", h, a) : h \in HourDisplays, a \in AlertFlags}

Rendered(fs) == <<Response(200, FALSE, TRUE, fs)>>

InitLocals ==
    /\ args = NoOptions
    /\ stack = <<>>
    /\ calls = <<>>
    /\ where = <<>>
    /\ response = None
    /\ i = 0
    /\ previous_date = PyStr("")
    /\ previous_station = PyStr("")
    /\ out = <<>>
    /\ pc = "main"
    /\ status = "running"

\* Every command with every assignment of its options, against every
\* response shape.
InitOptions ==
    /\ cmd \in Commands
    /\ opts \in OptionsOf(cmd)
    /\ responses \in [1..2 -> SmallResponses]

\* indexes and alerts against every feature list of the grouping keys.
InitGroups ==
    /\ cmd \in {"indexes", "alerts"}
    /\ opts = [NoOptions EXCEPT !.date = "2020-04-10", !.station = "3072"]
    /\ responses \in {Rendered(fs) : fs \in Lists(GroupFeatures, MaxFeatures)}

\* indexes and alerts against every hour display and alert flag.
InitFormats ==
    /\ cmd \in {"indexes", "alerts"}
    /\ opts = [NoOptions EXCEPT !.date = "2020-04-10", !.station = "3072"]
    /\ responses \in {Rendered(fs) : fs \in Lists(FormatFeatures, MaxFormat)}

Init == InitLocals /\ (InitOptions \/ InitGroups \/ InitFormats)

-----------------------------------------------------------------------------
(* Operations *)

\* requests.get(url): the request is recorded and the next answer taken.
Request(url) ==
    /\ calls' = Append(calls, url)
    /\ response' = Head(responses)
    /\ responses' = Tail(responses)

\* `return` of the running get_* call: back to the suspended get_indexes
\* frame if there is one, else main ends.
Return ==
    IF stack = <<>>
    THEN pc' = "done" /\ status' = "ok"
    ELSE pc' = "get_indexes_recurse" /\ status' = status

\* An uncaught exception or exit(1) ends the program wherever it is.
Abort(how) == pc' = "done" /\ status' = how

\* main: the command is dispatched with the parsed options.
main ==
    /\ pc = "main"
    /\ args' = opts
    /\ pc' = CASE cmd = "stations" -> "get_stations"
               [] cmd = "indexes"  -> "get_indexes"
               [] cmd = "alerts"   -> "get_alerts"
    /\ UNCHANGED <<cmd, opts, stack, responses, calls, where, response, i,
                   previous_date, previous_station, out, status>>

\* get_stations up to requests.get.
get_stations ==
    /\ pc = "get_stations"
    /\ LET date == IF ~Truthy(args.date) THEN yesterday ELSE args.date
           w == add_parameter(<<>>, "data", date, "=")
       IN  /\ args' = [args EXCEPT !.date = date]
           /\ where' = w
           /\ Request(build_url(URL_GLOBAL, w, "concelho_nome,estacao_id,estacao_nome",
                                "concelho_nome,estacao_nome"))
    /\ pc' = "stations_response"
    /\ UNCHANGED <<cmd, opts, stack, i, previous_date, previous_station, out, status>>

\* get_stations after requests.get.
stations_response ==
    /\ pc = "stations_response"
    /\ IF response.status_code /= 200 THEN Return /\ out' = out
       ELSE IF response.error THEN Return /\ out' = out
       ELSE IF ~response.has_features THEN Abort("KeyError") /\ out' = out
       ELSE /\ out' = Append(out, Printed("stations",
                        join_lines([k \in 1..Len(response.features) |->
                                        format_station(response.features[k])])))
            /\ Return
    /\ UNCHANGED <<cmd, opts, args, stack, responses, calls, where, response, i,
                   previous_date, previous_station>>

\* get_indexes up to requests.get, or up to its first recursive call.
get_indexes ==
    /\ pc = "get_indexes"
    /\ IF ~Truthy(args.date) /\ ~Truthy(args.date_min) /\ ~Truthy(args.date_max)
       THEN /\ stack' = <<[args |-> args, todo |-> <<yesterday, today>>]>> \o stack
            /\ pc' = "get_indexes_recurse"
            /\ UNCHANGED <<args, responses, calls, where, response>>
       ELSE /\ where' = build_where(args)
            /\ Request(build_url(URL_POLUENTES, build_where(args), "*", ""))
            /\ pc' = "indexes_response"
            /\ UNCHANGED <<args, stack>>
    /\ UNCHANGED <<cmd, opts, i, previous_date, previous_station, out, status>>

\* The suspended get_indexes frame: its next recursive call, or its return.
get_indexes_recurse ==
    /\ pc = "get_indexes_recurse"
    /\ LET frame == Head(stack) IN
       IF frame.todo /= <<>>
       THEN /\ args' = [date |-> Head(frame.todo), date_min |-> None, date_max |-> None,
                        station |-> frame.args.station, pollutant |-> frame.args.pollutant]
            /\ stack' = <<[frame EXCEPT !.todo = Tail(frame.todo)]>> \o Tail(stack)
            /\ pc' = "get_indexes"
            /\ status' = status
       ELSE /\ args' = frame.args
            /\ stack' = Tail(stack)
            /\ IF Tail(stack) = <<>>
               THEN pc' = "done" /\ status' = "ok"
               ELSE pc' = "get_indexes_recurse" /\ status' = status
    /\ UNCHANGED <<cmd, opts, responses, calls, where, response, i,
                   previous_date, previous_station, out>>

\* get_indexes after requests.get, up to the loop.
indexes_response ==
    /\ pc = "indexes_response"
    /\ IF response.status_code /= 200 THEN Return /\ out' = out
       ELSE IF response.error THEN Return /\ out' = out
       ELSE IF ~response.has_features \/ Len(response.features) = 0
       THEN Return /\ out' = Append(out, NO_DATA)
       ELSE /\ pc' = "indexes_loop" /\ status' = status /\ out' = out
    /\ IF pc' = "indexes_loop"
       THEN previous_date' = PyStr("") /\ previous_station' = PyStr("") /\ i' = 1
       ELSE UNCHANGED <<previous_date, previous_station, i>>
    /\ UNCHANGED <<cmd, opts, args, stack, responses, calls, where, response>>

\* Mutant for C2: the loop of get_indexes with a new title only when both
\* the date and the station differ from the previous feature's.
indexes_loop_and ==
    /\ pc = "indexes_loop"
    /\ LET attr == response.features[i]
           response_date == PyInt(attr.data)
           response_station == PyStr(attr.estacao_id)
           title == indexes_title(attr)
       IN  IF py_ne(response_date, previous_date) /\ py_ne(response_station, previous_station)
           THEN /\ previous_date' = response_date
                /\ previous_station' = response_station
                /\ out' = out \o <<Printed("title", title), Printed("rule", title),
                                   Printed("line", format_index_values(attr))>>
           ELSE /\ out' = Append(out, Printed("line", format_index_values(attr)))
                /\ UNCHANGED <<previous_date, previous_station>>
    /\ IF i = Len(response.features) THEN Return ELSE pc' = pc /\ status' = status
    /\ i' = i + 1
    /\ UNCHANGED <<cmd, opts, args, stack, responses, calls, where, response>>

\* One iteration of the loop of get_indexes; after the last one the call returns.
indexes_loop ==
    /\ pc = "indexes_loop"
    /\ LET attr == response.features[i]
           response_date == PyInt(attr.data)
           response_station == PyStr(attr.estacao_id)
           title == indexes_title(attr)
       IN  IF py_ne(response_date, previous_date) \/ py_ne(response_station, previous_station)
           THEN /\ previous_date' = response_date
                /\ previous_station' = response_station
                /\ out' = out \o <<Printed("title", title), Printed("rule", title),
                                   Printed("line", format_index_values(attr))>>
           ELSE /\ out' = Append(out, Printed("line", format_index_values(attr)))
                /\ UNCHANGED <<previous_date, previous_station>>
    /\ IF i = Len(response.features) THEN Return ELSE pc' = pc /\ status' = status
    /\ i' = i + 1
    /\ UNCHANGED <<cmd, opts, args, stack, responses, calls, where, response>>

\* get_alerts up to requests.get, or to exit(1).
get_alerts ==
    /\ pc = "get_alerts"
    /\ IF ~Truthy(args.station) /\ ~Truthy(args.pollutant) /\ ~Truthy(args.date)
          /\ ~Truthy(args.date_min) /\ ~Truthy(args.date_max)
       THEN /\ out' = Append(out, USAGE_ALERTS)
            /\ Abort("exit(1)")
            /\ UNCHANGED <<responses, calls, where, response>>
       ELSE /\ where' = build_where(args)
            /\ Request(build_url(URL_ALERTAS, build_where(args), "*", "data"))
            /\ pc' = "alerts_response"
            /\ UNCHANGED <<out, status>>
    /\ UNCHANGED <<cmd, opts, args, stack, i, previous_date, previous_station>>

\* get_alerts after requests.get, up to the loop.
alerts_response ==
    /\ pc = "alerts_response"
    /\ IF response.status_code /= 200 THEN Return /\ out' = out
       ELSE IF response.error THEN Return /\ out' = out
       ELSE IF ~response.has_features THEN Abort("KeyError") /\ out' = out
       ELSE IF Len(response.features) = 0
       THEN Return /\ out' = Append(out, NO_DATA)
       ELSE /\ pc' = "alerts_loop" /\ status' = status /\ out' = out
    /\ IF pc' = "alerts_loop"
       THEN previous_station' = PyStr("") /\ i' = 1
       ELSE UNCHANGED <<previous_station, i>>
    /\ UNCHANGED <<cmd, opts, args, stack, responses, calls, where, response,
                   previous_date>>

\* One iteration of the loop of get_alerts; after the last one the call returns.
alerts_loop ==
    /\ pc = "alerts_loop"
    /\ LET attr == response.features[i]
           response_station == PyStr(attr.estacao_id)
           title == alerts_title(attr)
       IN  IF py_ne(response_station, previous_station)
           THEN /\ previous_station' = response_station
                /\ out' = out \o <<Printed("title", title), Printed("rule", title),
                                   Printed("line", format_alert(attr))>>
           ELSE /\ out' = Append(out, Printed("line", format_alert(attr)))
                /\ UNCHANGED previous_station
    /\ IF i = Len(response.features) THEN Return ELSE pc' = pc /\ status' = status
    /\ i' = i + 1
    /\ UNCHANGED <<cmd, opts, args, stack, responses, calls, where, response,
                   previous_date>>

Next ==
    \/ main
    \/ get_stations
    \/ stations_response
    \/ get_indexes
    \/ get_indexes_recurse
    \/ indexes_response
    \/ indexes_loop
    \/ get_alerts
    \/ alerts_response
    \/ alerts_loop

Spec == Init /\ [][Next]_vars

-----------------------------------------------------------------------------
(* Vocabulary of the properties *)

Last(s) == s[Len(s)]

\* What the running call (or, once it returned, the last call) has printed.
Report ==
    LET ThisCall(e) == e.call = Len(calls) IN SelectSeq(out, ThisCall)

Kinds(r) == [k \in 1..Len(r) |-> r[k].kind]
IsLine(e) == e.kind = "line"
IsTitle(e) == e.kind = "title"
NumLines(r) == Len(SelectSeq(r, IsLine))
NumTitles(r) == Len(SelectSeq(r, IsTitle))

\* The position in r of its k-th body line.
LinePos(r, k) ==
    CHOOSE p \in 1..Len(r) :
        IsLine(r[p]) /\ Cardinality({q \in 1..p : IsLine(r[q])}) = k

\* A title block (title, then its rule) stands immediately before position p.
TitleBlockBefore(r, p) == p > 2 /\ r[p-1].kind = "rule" /\ r[p-2].kind = "title"

\* The response of the last request has been examined by the command.
Answered ==
    /\ Len(calls) > 0
    /\ pc \notin {"stations_response", "indexes_response", "alerts_response"}

\* The last response is one the command renders: status 200, no error key,
\* a non-empty feature list.
Renders(c) ==
    /\ cmd = c
    /\ Answered
    /\ response.status_code = 200 /\ ~response.error
    /\ response.has_features /\ response.features /= <<>>

\* The rendering loop of the last response has ended.
Finished(c) == Renders(c) /\ pc \notin {"indexes_loop", "alerts_loop"}

Features == response.features

IndexesKey(f) == <<f.data, f.estacao_id>>

\* The clauses of the five constraints in declaration order.
Clauses(a) ==
    << <<"data", "=", "'", a.date, "'">>,
       <<"data", ">=", "'", a.date_min, "'">>,
       <<"data", "<=", "'", a.date_max, "'">>,
       <<"estacao_id", "=", "'", a.station, "'">>,
       <<"poluente_abv", "=", "'", a.pollutant, "'">> >>

NonEmptyClause(c) == c[4] /= "" /\ c[4] /= None

RECURSIVE JoinAnd(_)
JoinAnd(cs) ==
    IF cs = <<>> THEN <<>>
    ELSE IF Len(cs) = 1 THEN cs[1]
    ELSE cs[1] \o <<" and ">> \o JoinAnd(Tail(cs))

ExpectedFilter(a) == JoinAnd(SelectSeq(Clauses(a), NonEmptyClause))

HasMarker(text) == Len(text) >= 3 /\ SubSeq(text, Len(text) - 2, Len(text)) = ALERTA

\* A line without its alert marker, if it has one.
Unmarked(text) == IF HasMarker(text) THEN SubSeq(text, 1, Len(text) - 3) ELSE text

HasHourSuffix(text, hora) ==
    Len(text) >= 3 /\ SubSeq(text, Len(text) - 2, Len(text)) = <<" (", hora, ")">>

-----------------------------------------------------------------------------
(* Properties *)

\* C1: the filter expression that the chain of add_parameter calls of
\* get_indexes and get_alerts builds is the clauses of the non-empty
\* constraints only, in declaration order, joined by " and "; it is empty when
\* no constraint is non-empty and never begins or ends with " and ".
C1_FilterExpression ==
    pc \in {"indexes_response", "alerts_response"} =>
        /\ where = ExpectedFilter(args)
        /\ (where = <<>>) = (\A k \in 1..5 : ~NonEmptyClause(Clauses(args)[k]))
        /\ where /= <<>> => Head(where) /= " and " /\ Last(where) /= " and "
        /\ Last(calls).where = quote(where)

\* C1 witness: get_alerts has built the filter of all five constraints,
\* four " and " between five clauses.
C1_Witness ==
    /\ pc = "alerts_response"
    /\ \A k \in 1..5 : NonEmptyClause(Clauses(args)[k])
    /\ Len(where) = 29
    /\ Len(SelectSeq(where, LAMBDA t : t = " and ")) = 4

\* C2: in the indexes report a title block stands immediately before the
\* line of feature k exactly when k is the first feature or its (date,
\* station_id) differs from that of feature k-1; otherwise the line follows
\* the previous line directly.
C2_IndexesTitles ==
    Renders("indexes") =>
        LET r == Report IN
        /\ NumLines(r) <= Len(Features)
        /\ \A k \in 1..NumLines(r) :
             LET p == LinePos(r, k) IN
             /\ r[p].text = format_index_values(Features[k])
             /\ TitleBlockBefore(r, p)
                  <=> (k = 1 \/ IndexesKey(Features[k]) /= IndexesKey(Features[k-1]))
             /\ TitleBlockBefore(r, p) => r[p-2].text = indexes_title(Features[k])
             /\ ~TitleBlockBefore(r, p) => p > 1 /\ IsLine(r[p-1])

\* C2 witness: the four features (d1,s1),(d1,s1),(d2,s1),(d2,s2) are
\* rendered with titles before the first, third and fourth line only.
C2_Witness ==
    /\ Finished("indexes")
    /\ Len(Features) = 4
    /\ IndexesKey(Features[1]) = IndexesKey(Features[2])
    /\ Features[3].data /= Features[2].data
    /\ Features[3].estacao_id = Features[2].estacao_id
    /\ Features[4].data = Features[3].data
    /\ Features[4].estacao_id /= Features[3].estacao_id
    /\ Kinds(Report) = <<"title", "rule", "line", "line", "title", "rule", "line",
                         "title", "rule", "line">>

\* C3: in the alerts report there is exactly one title per maximal run of
\* consecutive features with the same station_id, standing before the first
\* line of the run and showing the date of the run's first feature.
C3_AlertsTitles ==
    Renders("alerts") =>
        LET r == Report IN
        /\ NumLines(r) <= Len(Features)
        /\ \A k \in 1..NumLines(r) :
             LET p == LinePos(r, k) IN
             /\ TitleBlockBefore(r, p)
                  <=> (k = 1 \/ Features[k].estacao_id /= Features[k-1].estacao_id)
             /\ TitleBlockBefore(r, p) => r[p-2].text = alerts_title(Features[k])

\* C4: a response of status 200 with no error key and an empty or absent
\* feature list ends the call in "No data found." and nothing else: no
\* title, no line, no empty report, no other fault.
C4_NoData ==
    (/\ Answered
     /\ response.status_code = 200 /\ ~response.error
     /\ (~response.has_features \/ response.features = <<>>))
    => /\ Report = <<NO_DATA>>
       /\ status /= "KeyError"

\* C5: a non-200 status, or an error key in the body, ends the call with a
\* message printed for the user and no report; never with no output.
C5_ErrorSurfaced ==
    (/\ Answered
     /\ (response.status_code /= 200 \/ response.error))
    => /\ Report /= <<>>
       /\ \A k \in 1..Len(Report) : Report[k].kind = "message"

\* C6: indexes invoked with none of date, date-min, date-max issues exactly
\* one request in the whole invocation, filtered on today's date; none for
\* yesterday.
C6_OneCallToday ==
    (/\ cmd = "indexes"
     /\ opts.date = "" /\ opts.date_min = "" /\ opts.date_max = "")
    => /\ Len(calls) <= 1
       /\ \A k \in 1..Len(calls) :
            SubSeq(calls[k].where, 1, 5) = quote(<<"data", "=", "'", today, "'">>)
       /\ pc = "done" => Len(calls) = 1

\* C7: alerts with no constraint at all, and indexes with no station, end in
\* a usage error before any request is issued.
C7_UsageError ==
    (\/ cmd = "alerts" /\ opts = NoOptions
     \/ cmd = "indexes" /\ opts.station = "")
    => /\ calls = <<>>
       /\ pc = "done" => status = "exit(1)"

\* C8: a line of the indexes report ends with the emphasized alert marker if
\* and only if its feature's alert flag equals 1; no line of the alerts
\* report holds the marker, whatever the flag.
C8_AlertMarker ==
    /\ Renders("indexes") =>
         \A k \in 1..NumLines(Report) :
             HasMarker(Report[LinePos(Report, k)].text) <=> Features[k].alerta = 1
    /\ Renders("alerts") =>
         \A k \in 1..NumLines(Report) :
             \A j \in 1..Len(Report[LinePos(Report, k)].text) :
                 Report[LinePos(Report, k)].text[j] \notin {" ALERTA!", PRINT_RED_ON_BLACK}

\* C8 witness: the indexes report holds a marked line of a feature with flag
\* 1 and an unmarked line of a feature with another non-zero flag.
C8_Witness ==
    /\ Finished("indexes")
    /\ Len(Features) = 2
    /\ Features[1].alerta = 1 /\ Features[2].alerta = 2
    /\ HasMarker(Report[LinePos(Report, 1)].text)
    /\ ~HasMarker(Report[LinePos(Report, 2)].text)

\* C9: a line of either report lacks the " (hour)" suffix if and only if the
\* feature's hora_display is "N.h"; the empty string has the suffix; in the
\* indexes line the suffix comes before the alert marker.
C9_HourSuffix ==
    (Renders("indexes") \/ Renders("alerts")) =>
        \A k \in 1..NumLines(Report) :
            LET text == Report[LinePos(Report, k)].text
                hora == Features[k].hora_display
            IN  /\ HasHourSuffix(Unmarked(text), hora) <=> hora /= "N.h"
                /\ hora = "N.h" => Len(Unmarked(text)) = 7
                /\ hora /= "N.h" => Len(Unmarked(text)) = 10

\* C9 witness: the alerts report holds a line with the suffix of an empty
\* hora_display and a line of "N.h" without one.
C9_Witness ==
    /\ Finished("alerts")
    /\ Len(Features) = 2
    /\ Features[1].hora_display = "" /\ Features[2].hora_display = "N.h"
    /\ HasHourSuffix(Report[LinePos(Report, 1)].text, "")
    /\ Len(Report[LinePos(Report, 2)].text) = 7

\* C10: the indexes and the alerts report of a non-empty feature list hold
\* exactly one body line per feature, in the order of the list; the first
\* thing printed is a title, every line follows a title or a line, and there
\* are at least one and at most as many titles as features.
C10_OneLinePerFeature ==
    /\ Finished("indexes") =>
         /\ SelectSeq(Report, IsLine)
              = [k \in 1..Len(Features) |->
                    Printed("line", format_index_values(Features[k]))]
         /\ Report[1].kind = "title"
         /\ NumTitles(Report) >= 1 /\ NumTitles(Report) <= Len(Features)
    /\ Finished("alerts") =>
         /\ SelectSeq(Report, IsLine)
              = [k \in 1..Len(Features) |-> Printed("line", format_alert(Features[k]))]
         /\ Report[1].kind = "title"
         /\ NumTitles(Report) >= 1 /\ NumTitles(Report) <= Len(Features)

====
